---------------------------- MODULE Spec2Model ----------------------------
(***************************************************************************)
(* A model of dolay (src/main.go): the walk over a `docker save` archive,  *)
(* the extraction of each nested layer archive, the decoding of the        *)
(* manifest and of the image history, and the report loop.                 *)
(*                                                                         *)
(* Go strings are sequences of bytes: a string is modelled as a sequence   *)
(* of byte values, so that suffix tests, substring search, slicing and the *)
(* lexicographic comparison are computed as Go computes them.              *)
(***************************************************************************)
EXTENDS Integers, Sequences, FiniteSets, TLC

VARIABLES
    pc,         \* where run() is: "walk", "nested", "report", "done", "fatal"
    err,        \* why run() ended fatally ("" while it has not)
    maxFiles,   \* *maxFiles, flag -n
    lineWidth,  \* *lineWidth, flag -l
    manifests,  \* var manifests []ManifestItem: [arr: backing array, len]
    img,        \* var img Image: img.History as [arr: backing array, len]
    layers,     \* layers map[string]*Layer: a function on the observed names
    cur,        \* hdr.Name of the outer entry whose nested archive is read
    nested,     \* the headers record.Next() has returned from that archive
    fs,         \* var fs []*tar.Header of the nested archive being read
    total,      \* var total uint64 of the nested archive being read
    manifest,   \* manifest := manifests[0]
    history,    \* history, the filtered steps the report loop ranges over
    i,          \* the report loop's index
    out         \* the lines written to standard output so far

vars == <<pc, err, maxFiles, lineWidth, manifests, img, layers, cur, nested,
          fs, total, manifest, history, i, out>>

(***************************************************************************)
(* Bounds of the model.                                                    *)
(***************************************************************************)
\* the most entries of one nested archive
MaxNested == 3
\* the most steps in the "history" array of one image document
MaxSteps == 3
\* the most pieces a createdBy string of SpecCmd is concatenated from
MaxPieces == 3

(***************************************************************************)
(* Strings.                                                                *)
(***************************************************************************)
\* "/bin/sh -c ", the separator of strings.SplitN at line 142
Marker == <<47, 98, 105, 110, 47, 115, 104, 32, 45, 99, 32>>
\* "/layer.tar", line 100
layerSuffix == <<47, 108, 97, 121, 101, 114, 46, 116, 97, 114>>
\* the constant manifest = "manifest.json", line 63
manifestName == <<109, 97, 110, 105, 102, 101, 115, 116, 46, 106, 115, 111, 110>>
\* ".json", line 126
jsonSuffix == <<46, 106, 115, 111, 110>>
\* const humanizedWidth
humanizedWidth == 7

Min(a, b) == IF a < b THEN a ELSE b
Max(a, b) == IF a > b THEN a ELSE b

\* strings.HasSuffix(s, suffix)
HasSuffix(s, suffix) ==
    /\ Len(s) >= Len(suffix)
    /\ SubSeq(s, Len(s) - Len(suffix) + 1, Len(s)) = suffix

\* strings.Index(s, sep): the 0-based offset of the first occurrence, or -1
Index(s, sep) ==
    LET hits == {m \in 0..(Len(s) - Len(sep)) :
                    SubSeq(s, m + 1, m + Len(sep)) = sep}
    IN  IF hits = {} THEN -1
        ELSE CHOOSE m \in hits : \A k \in hits : m <= k

\* strings.SplitN(s, sep, 2) for a non-empty sep: one token when sep does
\* not occur, else the text before and the text after its first occurrence
SplitN2(s, sep) ==
    LET m == Index(s, sep)
    IN  IF m < 0 THEN <<s>>
        ELSE <<SubSeq(s, 1, m), SubSeq(s, m + Len(sep) + 1, Len(s))>>

\* strings.Replace(s, old, new, n) for a one-byte old: the first n
\* occurrences are replaced (all of them when n < 0, none when n = 0)
RECURSIVE Replace(_, _, _, _)
Replace(s, old, new, n) ==
    IF n = 0 \/ s = <<>> THEN s
    ELSE IF <<Head(s)>> = old
         THEN new \o Replace(Tail(s), old, new, IF n < 0 THEN n ELSE n - 1)
         ELSE <<Head(s)>> \o Replace(Tail(s), old, new, n)

\* s < t on Go strings: the lexicographic order of the bytes
StrLess(s, t) ==
    \E k \in 1..(Len(t)) :
        /\ \A j \in 1..(k - 1) : j <= Len(s) /\ s[j] = t[j]
        /\ \/ k = Len(s) + 1
           \/ k <= Len(s) /\ s[k] < t[k]

(***************************************************************************)
(* The displayed command, lines 141-150.                                   *)
(***************************************************************************)
\* DisplayCmd with the marker honoured only when text follows it
DisplayCmdM(createdBy) ==
    LET tokens == SplitN2(createdBy, Marker)
    IN  IF Len(tokens) = 2 /\ tokens[2] # <<>> THEN tokens[2] ELSE createdBy

\* lines 141-147: the text after the first marker when SplitN finds one
DisplayCmd(createdBy) ==
    LET tokens == SplitN2(createdBy, Marker)
    IN  IF Len(tokens) = 2 THEN tokens[2] ELSE createdBy

\* cmdWidth := *lineWidth - humanizedWidth - 4, line 137
CmdWidth(lw) == lw - humanizedWidth - 4

\* line 148: whether cmd[:cmdWidth] is evaluated, and panics when it is
\* evaluated with a negative cmdWidth
TruncPanics(cmd, lw) == Len(cmd) > CmdWidth(lw) /\ CmdWidth(lw) < 0

\* lines 148-150
Truncate(cmd, lw) ==
    IF Len(cmd) > CmdWidth(lw) THEN SubSeq(cmd, 1, CmdWidth(lw)) ELSE cmd

(***************************************************************************)
(* Sorting, lines 24-39 and sort.Sort at line 156.                         *)
(***************************************************************************)
\* Less without the tie-break on the name
LessM(s, a, b) == s[a].Size > s[b].Size

\* Files.Less, with 1-based indices
Less(s, a, b) ==
    IF s[a].Size # s[b].Size THEN s[a].Size > s[b].Size
    ELSE StrLess(s[a].Name, s[b].Name)

\* Swap that overwrites s[a] and leaves s[b]
SwapM(s, a, b) == [s EXCEPT ![a] = s[b]]

\* Files.Swap
Swap(s, a, b) == [s EXCEPT ![a] = s[b], ![b] = s[a]]

\* sort.Sort on fewer than 12 elements is the library's insertion sort:
\*   for i := a + 1; i < b; i++ {
\*       for j := i; j > a && data.Less(j, j-1); j-- { data.Swap(j, j-1) } }
RECURSIVE SiftDown(_, _)
SiftDown(s, j) ==
    IF j > 1 /\ Less(s, j, j - 1) THEN SiftDown(Swap(s, j, j - 1), j - 1)
    ELSE s

RECURSIVE InsertionSort(_, _)
InsertionSort(s, k) ==
    IF k > Len(s) THEN s ELSE InsertionSort(SiftDown(s, k), k + 1)

Sort(s) == InsertionSort(s, 2)

(***************************************************************************)
(* Decoding, lines 41-53, 123 and 127.                                     *)
(***************************************************************************)
\* an optional JSON key: <<>> when the key is absent, <<v>> when present
Opt(S) == {<<>>} \cup {<<v>> : v \in S}

ZeroHistory == [EmptyLayer |-> FALSE, CreatedBy |-> <<>>]
ZeroManifestItem == [Layers |-> <<>>]
NilSlice == [arr |-> <<>>, len |-> 0]

\* json decoding of one object into a History value that already exists:
\* a key the object omits leaves the field as it was
DecodeHistory(old, j) ==
    [EmptyLayer |-> IF j.empty_layer = <<>> THEN old.EmptyLayer
                    ELSE j.empty_layer[1],
     CreatedBy  |-> IF j.created_by = <<>> THEN old.CreatedBy
                    ELSE j.created_by[1]]

\* json decoding of one object into a ManifestItem that already exists
DecodeManifestItem(old, j) ==
    [Layers |-> IF j.Layers = <<>> THEN old.Layers ELSE j.Layers[1]]

\* json decoding of an array into a slice that already exists
\* (encoding/json, decode.go, array): element k is decoded into the slice's
\* element k, which is the backing array's old value when the array is long
\* enough and a zero value otherwise; the slice ends with the array's length,
\* and an empty array gives a fresh empty slice.  ofHistory tells the element
\* type: History (line 127) or ManifestItem (line 123).
DecodeArray(s, elems, ofHistory) ==
    IF Len(elems) = 0 THEN NilSlice
    ELSE [arr |-> [k \in 1..Max(Len(elems), Len(s.arr)) |->
                     IF k > Len(elems) THEN s.arr[k]
                     ELSE IF ofHistory
                     THEN DecodeHistory(IF k <= Len(s.arr) THEN s.arr[k]
                                        ELSE ZeroHistory, elems[k])
                     ELSE DecodeManifestItem(IF k <= Len(s.arr) THEN s.arr[k]
                                             ELSE ZeroManifestItem, elems[k])],
          len |-> Len(elems)]

\* line 123: json.NewDecoder(archive).Decode(&manifests)
DecodeManifests(s, doc) == DecodeArray(s, doc, FALSE)

\* line 127: json.NewDecoder(archive).Decode(&img); doc.history is the
\* optional "history" key
DecodeImage(s, doc) ==
    IF doc.history = <<>> THEN s
    ELSE DecodeArray(s, doc.history[1], TRUE)

\* the elements of a slice
Visible(s) == SubSeq(s.arr, 1, s.len)

\* removeEmptyLayers(h, old) as run calls it, with h = old[:0]: h shares
\* old's backing array, so each append writes into the array the range loop
\* is still reading.  arr is that array, n = len(old), r the next index the
\* loop reads, k = len(h).
RECURSIVE removeLoop(_, _, _, _)
removeLoop(arr, n, r, k) ==
    IF r > n THEN [arr |-> arr, len |-> k]
    ELSE LET action == arr[r]
         IN  IF ~action.EmptyLayer
             THEN removeLoop([arr EXCEPT ![k + 1] = action], n, r + 1, k + 1)
             ELSE removeLoop(arr, n, r + 1, k)

\* removeEmptyLayers that returns old as it is
removeEmptyLayersM(old) == [arr |-> old.arr, len |-> old.len]

removeEmptyLayers(old) == removeLoop(old.arr, old.len, 1, 0)


(***************************************************************************)
(* The inputs: entry names, nested headers, JSON documents, flags.         *)
(***************************************************************************)
\* "a/layer.tar", "b/layer.tar"
aLayer == <<97>> \o layerSuffix
bLayer == <<98>> \o layerSuffix
\* "c.json", and "x/manifest.json", which ends in the manifest's name
cJson == <<99>> \o jsonSuffix
subManifest == <<120, 47>> \o manifestName
\* "repositories"
repositories == <<114, 101, 112, 111, 115, 105, 116, 111, 114, 105, 101, 115>>

EntryNames == {aLayer, bLayer, manifestName, cJson, subManifest, repositories}

\* tar.TypeReg and tar.TypeDir, the Typeflag bytes '0' and '5'
TypeReg == 48
TypeDir == 53

Header(name, size, flag) == [Name |-> name, Size |-> size, Typeflag |-> flag]

\* IsDir that takes no entry for a directory
IsDirM(h) == FALSE

\* h.FileInfo().IsDir(), lines 113-114
IsDir(h) == h.Typeflag = TypeDir

\* the sequences over S of length lo..hi
SeqsOf(S, lo, hi) == UNION {[1..n -> S] : n \in lo..hi}

\* the nested headers of SpecLayers: files "a" and "ab" of sizes 0 and 1,
\* and directories, one of them with a size in its header
Headers ==
    {Header(n, s, TypeReg) : n \in {<<97>>, <<97, 98>>}, s \in 0..1}
        \cup {Header(<<97>>, 0, TypeDir), Header(<<97, 98>>, 1, TypeDir)}

\* the nested headers of Spec: one file
FewHeaders == {Header(<<97>>, 1, TypeReg)}

\* the pieces the createdBy strings of SpecCmd are concatenated from: the
\* marker, the marker without its last byte, " " and "a"
Pieces == {Marker, SubSeq(Marker, 1, Len(Marker) - 1), <<32>>, <<97>>}

RECURSIVE Concat(_)
Concat(ps) == IF ps = <<>> THEN <<>> ELSE Head(ps) \o Concat(Tail(ps))

CmdInputs == {Concat(ps) : ps \in SeqsOf(Pieces, 0, MaxPieces)}

\* "COPY", "/bin/sh -c touch", "/bin/sh -c ", "ADD": the build commands;
\* step k of a history written by Steps carries Cmds[k]
Cmds == << <<67, 79, 80, 89>>,
           Marker \o <<116, 111, 117, 99, 104>>,
           Marker,
           <<65, 68, 68>> >>

\* "history" arrays that give every key: step k is built by Cmds[k], and
\* any of the steps is an empty layer
FullSteps ==
    {[k \in 1..Len(e) |->
        [empty_layer |-> <<e[k]>>, created_by |-> <<Cmds[k]>>]] :
        e \in SeqsOf(BOOLEAN, 0, MaxSteps)}

ImageDocs == {[history |-> <<s>>] : s \in FullSteps}

\* "history" arrays whose steps may omit either key, and documents that
\* may omit "history"
SparseSteps ==
    SeqsOf([empty_layer : Opt(BOOLEAN), created_by : Opt({Cmds[1]})], 0, 2)

SparseImageDocs == {[history |-> h] : h \in Opt(SparseSteps)}

\* manifests: the "Layers" of the first item pair with the history
LayerLists == SeqsOf({aLayer, bLayer}, 0, 2)

ManifestDocs ==
    {<<>>} \cup {<<[Layers |-> <<l>>]>> : l \in LayerLists}
        \cup {<<[Layers |-> <<l>>], [Layers |-> <<<<bLayer>>>>]>> :
                 l \in {<<aLayer>>, <<aLayer, bLayer>>}}

SparseManifestDocs ==
    SeqsOf([Layers : Opt({<<aLayer>>, <<bLayer, aLayer>>})], 0, 2)

\* manifests and histories of SpecLayers: layer a once or twice
OneLayerManifests ==
    {<<[Layers |-> <<l>>]>> : l \in {<<aLayer>>, <<aLayer, aLayer>>}}

OneLayerImageDocs ==
    {[history |-> <<[k \in 1..n |->
                       [empty_layer |-> <<FALSE>>, created_by |-> <<Cmds[1]>>]]>>] :
        n \in 1..MaxSteps}

(***************************************************************************)
(* The lines run() prints.                                                 *)
(***************************************************************************)
\* fmt.Println(), line 152
BlankLine == [kind |-> "blank", size |-> 0, text |-> <<>>]
\* fmt.Println(strings.Repeat("=", *lineWidth)), lines 153 and 155
SepLine(lw) == [kind |-> "sep", size |-> lw, text |-> <<>>]
\* color.Blue(humanizeBytes(layer.Size), "\t $", strings.Replace(cmd, "\t", " ", 0)),
\* line 154: the size and the command the line is printed from
SummaryLine(sz, cmd) ==
    [kind |-> "summary", size |-> sz, text |-> Replace(cmd, <<9>>, <<32>>, 0)]
\* fmt.Println(humanizeBytes(uint64(f.Size)), "\t", f.Name), line 161
FileLine(f) == [kind |-> "file", size |-> f.Size, text |-> f.Name]

\* PrintFiles whose loop breaks one pass late (j > n)
RECURSIVE PrintFilesM(_, _, _, _)
PrintFilesM(files, j, n, acc) ==
    IF j >= Len(files) THEN acc
    ELSE IF j > n THEN acc
    ELSE PrintFilesM(files, j + 1, n, Append(acc, FileLine(files[j + 1])))

\* lines 157-162: the loop over layer.Files, j the 0-based index
RECURSIVE PrintFiles(_, _, _, _)
PrintFiles(files, j, n, acc) ==
    IF j >= Len(files) THEN acc
    ELSE IF j >= n THEN acc
    ELSE PrintFiles(files, j + 1, n, Append(acc, FileLine(files[j + 1])))

(***************************************************************************)
(* run(), lines 74-166.                                                    *)
(***************************************************************************)
\* the switch of lines 99-130: the first case that matches
Classify(name) ==
    IF HasSuffix(name, layerSuffix) THEN "layer"
    ELSE IF name = manifestName THEN "manifest"
    ELSE IF HasSuffix(name, jsonSuffix) THEN "json"
    ELSE "other"

\* main, lines 176-180: log.Fatal exits with 1, a panic with 2
ExitCode ==
    IF pc = "done" THEN 0
    ELSE IF pc = "fatal" THEN (IF err \in {"tar", "json"} THEN 1 ELSE 2)
    ELSE -1

InitWith(MF, LW) ==
    /\ pc = "walk"
    /\ err = ""
    /\ maxFiles \in MF
    /\ lineWidth \in LW
    /\ manifests = NilSlice
    /\ img = NilSlice
    /\ layers = << >>
    /\ cur = <<>>
    /\ nested = <<>>
    /\ fs = <<>>
    /\ total = 0
    /\ manifest = ZeroManifestItem
    /\ history = <<>>
    /\ i = 0
    /\ out = <<>>

\* run returns err (lines 96, 111, 124, 128) or panics
Fatal(why) ==
    /\ pc' = "fatal"
    /\ err' = why

\* line 100: an entry whose name ends in "/layer.tar"; its nested archive
\* is read next
ReadLayerEntry(names) ==
    /\ pc = "walk"
    /\ \E name \in names :
        /\ Classify(name) = "layer"
        /\ cur' = name
    /\ pc' = "nested"
    /\ nested' = <<>>
    /\ fs' = <<>>
    /\ total' = 0
    /\ UNCHANGED <<err, maxFiles, lineWidth, manifests, img, layers, manifest,
                   history, i, out>>

\* lines 106-118: record.Next() gives a header
ReadHeader(hdrs) ==
    /\ pc = "nested"
    /\ Len(nested) < MaxNested
    /\ \E h \in hdrs :
        /\ nested' = Append(nested, h)
        /\ IF IsDir(h)
           THEN UNCHANGED <<fs, total>>
           ELSE /\ fs' = Append(fs, h)
                /\ total' = total + h.Size
    /\ UNCHANGED <<pc, err, maxFiles, lineWidth, manifests, img, layers, cur,
                   manifest, history, i, out>>

\* lines 107-109 and 120: record.Next() gives io.EOF
EndOfLayer ==
    /\ pc = "nested"
    /\ layers' = (cur :> [Files |-> fs, Size |-> total]) @@ layers
    /\ pc' = "walk"
    /\ cur' = <<>>
    /\ nested' = <<>>
    /\ fs' = <<>>
    /\ total' = 0
    /\ UNCHANGED <<err, maxFiles, lineWidth, manifests, img, manifest,
                   history, i, out>>

\* lines 122-125: the entry named manifest.json
ReadManifest(names, docs) ==
    /\ pc = "walk"
    /\ \E name \in names : Classify(name) = "manifest"
    /\ \E doc \in docs : manifests' = DecodeManifests(manifests, doc)
    /\ UNCHANGED <<pc, err, maxFiles, lineWidth, img, layers, cur, nested, fs, total,
                   manifest, history, i, out>>

\* lines 126-129: another entry whose name ends in ".json"
ReadImageDoc(doc) ==
    /\ pc = "walk"
    /\ img' = DecodeImage(img, doc)
    /\ UNCHANGED <<pc, err, maxFiles, lineWidth, manifests, layers, cur,
                   nested, fs, total, manifest, history, i, out>>

ReadImageJson(names, docs) ==
    /\ \E name \in names : Classify(name) = "json"
    /\ \E doc \in docs : ReadImageDoc(doc)

\* the switch matches no case: the entry is skipped
ReadOther(names) ==
    /\ pc = "walk"
    /\ \E name \in names : Classify(name) = "other"
    /\ UNCHANGED vars

\* lines 95-97 and 110-112: a tar error ends run
TarError ==
    /\ pc \in {"walk", "nested"}
    /\ Fatal("tar")
    /\ UNCHANGED <<maxFiles, lineWidth, manifests, img, layers, cur, nested, fs, total,
                   manifest, history, i, out>>

\* lines 123-125 and 127-129: a document that does not decode ends run
JsonError(names) ==
    /\ pc = "walk"
    /\ \E name \in names : Classify(name) \in {"manifest", "json"}
    /\ Fatal("json")
    /\ UNCHANGED <<maxFiles, lineWidth, manifests, img, layers, cur, nested, fs, total,
                   manifest, history, i, out>>

\* EndOfArchive that returns nil when there is no manifest
EndOfArchiveM ==
    /\ pc = "walk"
    /\ IF manifests.len = 0
       THEN /\ pc' = "done"
            /\ UNCHANGED <<err, img, manifest, history>>
       ELSE LET h == removeEmptyLayers(img)
            IN  /\ manifest' = manifests.arr[1]
                /\ history' = Visible(h)
                /\ img' = [arr |-> h.arr, len |-> img.len]
                /\ pc' = "report"
                /\ UNCHANGED err
    /\ UNCHANGED <<maxFiles, lineWidth, manifests, layers, cur, nested, fs, total, i,
                   out>>

\* lines 92-94 and 133-137: archive.Next() gives io.EOF; manifests[0]
\* panics on an empty slice; the filter overwrites img.History's array
EndOfArchive ==
    /\ pc = "walk"
    /\ IF manifests.len = 0
       THEN /\ Fatal("index")
            /\ UNCHANGED <<img, manifest, history>>
       ELSE LET h == removeEmptyLayers(img)
            IN  /\ manifest' = manifests.arr[1]
                /\ history' = Visible(h)
                /\ img' = [arr |-> h.arr, len |-> img.len]
                /\ pc' = "report"
                /\ UNCHANGED err
    /\ UNCHANGED <<maxFiles, lineWidth, manifests, layers, cur, nested, fs, total, i,
                   out>>

\* What one pass of the report loop does: where run is after it, the
\* lines it prints, the map and the index it leaves.
\* A panic inside the pass, after it has printed `lines`
Panics(why, lines) ==
    [pc |-> "fatal", err |-> why, lines |-> lines, layers |-> layers, i |-> i]

\* NilLayer that skips a layer the map does not hold
NilLayerM ==
    [pc |-> "report", err |-> "", lines |-> <<>>, layers |-> layers, i |-> i + 1]

\* line 139 gives a nil layer: lines 152 and 153 print, and layer.Size at
\* line 154 panics
NilLayer == Panics("nil", <<BlankLine, SepLine(lineWidth)>>)

\* lines 152-162 for a layer of the map: the block of the layer, whose
\* Files sort.Sort reorders in place
Block(path, cmd) ==
    LET layer == layers[path]
        sorted == Sort(layer.Files)
    IN  [pc |-> "report", err |-> "",
         lines |-> PrintFiles(sorted, 0, maxFiles,
                       <<BlankLine, SepLine(lineWidth),
                         SummaryLine(layer.Size, cmd), SepLine(lineWidth)>>),
         layers |-> [layers EXCEPT ![path].Files = sorted],
         i |-> i + 1]

\* lines 139-162
LoopBody ==
    IF i >= Len(manifest.Layers)
    THEN Panics("index", <<>>)    \* manifest.Layers[i] is out of range
    ELSE LET path == manifest.Layers[i + 1]
             cmd == DisplayCmd(history[i + 1].CreatedBy)
         IN  IF TruncPanics(cmd, lineWidth)
             THEN Panics("slice", <<>>)
             ELSE IF path \notin DOMAIN layers
             THEN NilLayer
             ELSE Block(path, Truncate(cmd, lineWidth))

\* lines 138-163: one pass of the report loop
ReportStep ==
    /\ pc = "report"
    /\ i < Len(history)
    /\ LET r == LoopBody
       IN  /\ pc' = r.pc
           /\ err' = r.err
           /\ out' = out \o r.lines
           /\ layers' = r.layers
           /\ i' = r.i
    /\ UNCHANGED <<maxFiles, lineWidth, manifests, img, cur, nested, fs, total,
                   manifest, history>>

\* line 165: the loop is over, run returns nil
ReportDone ==
    /\ pc = "report"
    /\ i >= Len(history)
    /\ pc' = "done"
    /\ UNCHANGED <<err, maxFiles, lineWidth, manifests, img, layers, cur, nested, fs,
                   total, manifest, history, i, out>>

(***************************************************************************)
(* The specifications.  They share every action and differ in the inputs   *)
(* the walk draws from.                                                    *)
(***************************************************************************)
\* Spec: up to two layers of few files, every manifest and every history,
\* in an archive that holds one manifest and one image document
Init == InitWith({10}, {10, 13, 100})

Next ==
    \/ ReadLayerEntry(EntryNames)
    \/ ReadHeader(FewHeaders)
    \/ EndOfLayer
    \/ manifests = NilSlice /\ ReadManifest(EntryNames, ManifestDocs)
    \/ img = NilSlice /\ ReadImageJson(EntryNames, ImageDocs)
    \/ ReadOther(EntryNames)
    \/ TarError
    \/ JsonError(EntryNames)
    \/ EndOfArchive
    \/ ReportStep
    \/ ReportDone

Spec == Init /\ [][Next]_vars

\* SpecLayers: one layer of every content, referenced once or twice by the
\* manifest, under every limit on the files shown
InitLayers == InitWith({-1, 0, 1, 2, 10}, {100})

NextLayers ==
    \/ ReadLayerEntry({aLayer} \ DOMAIN layers)
    \/ ReadHeader(Headers)
    \/ EndOfLayer
    \/ manifests = NilSlice /\ ReadManifest({manifestName}, OneLayerManifests)
    \/ img = NilSlice /\ ReadImageJson({cJson}, OneLayerImageDocs)
    \/ EndOfArchive
    \/ ReportStep
    \/ ReportDone

SpecLayers == InitLayers /\ [][NextLayers]_vars

\* SpecJson: any number of manifests and image documents, whose objects
\* may omit their keys
InitJson == InitWith({10}, {100})

NextJson ==
    \/ ReadManifest(EntryNames, SparseManifestDocs)
    \/ ReadImageJson(EntryNames, SparseImageDocs)
    \/ JsonError(EntryNames)
    \/ EndOfArchive
    \/ ReportStep
    \/ ReportDone

SpecJson == InitJson /\ [][NextJson]_vars

\* SpecCmd: the report of one empty layer whose step has any createdBy;
\* the initial states are those at the end of the walk over such an archive
InitCmd ==
    /\ pc = "report"
    /\ err = ""
    /\ maxFiles = 10
    /\ lineWidth \in {13, 100}
    /\ manifests = [arr |-> <<[Layers |-> <<aLayer>>]>>, len |-> 1]
    /\ manifest = [Layers |-> <<aLayer>>]
    /\ layers = (aLayer :> [Files |-> <<>>, Size |-> 0])
    /\ \E c \in CmdInputs :
        /\ history = <<[EmptyLayer |-> FALSE, CreatedBy |-> c]>>
        /\ img = [arr |-> history, len |-> 1]
    /\ cur = <<>>
    /\ nested = <<>>
    /\ fs = <<>>
    /\ total = 0
    /\ i = 0
    /\ out = <<>>

NextCmd == ReportStep \/ ReportDone

SpecCmd == InitCmd /\ [][NextCmd]_vars

(***************************************************************************)
(* The vocabulary of the claims.                                           *)
(***************************************************************************)
\* the walk reached the end of the archive and found a first manifest item
WalkEnded ==
    /\ manifests.len > 0
    /\ \/ pc \in {"report", "done"}
       \/ pc = "fatal" /\ err \notin {"tar", "json"}

\* a report block is counted by its summary line
SummaryPos == {p \in 1..Len(out) : out[p].kind = "summary"}
NumBlocks == Cardinality(SummaryPos)
NthSummary(k) ==
    CHOOSE p \in SummaryPos : Cardinality({q \in SummaryPos : q <= p}) = k

\* the file lines of block k: those after its second separator
FileLinesOf(k) ==
    LET p == NthSummary(k)
        stop == {q \in (p + 2)..Len(out) : out[q].kind # "file"}
        e == IF stop = {} THEN Len(out) + 1
             ELSE CHOOSE q \in stop : \A r \in stop : q <= r
    IN  SubSeq(out, p + 2, e - 1)

\* the path the report pairs with step k
PathOf(k) == manifest.Layers[k]

Count(s, x) == Cardinality({k \in 1..Len(s) : s[k] = x})
IsPerm(s, t) ==
    /\ Len(s) = Len(t)
    /\ \A k \in 1..Len(s) : Count(s, s[k]) = Count(t, s[k])

\* s <= t in the lexicographic order of the bytes: s is a prefix of t, or
\* s has the smaller byte where they first differ
LexLeq(s, t) ==
    \/ /\ Len(s) <= Len(t)
       /\ \A k \in 1..Len(s) : s[k] = t[k]
    \/ \E k \in 1..Min(Len(s), Len(t)) :
        /\ \A j \in 1..(k - 1) : s[j] = t[j]
        /\ s[k] < t[k]

\* the ranking order: the larger file first, and of two files of one size
\* the one with the smaller name first
RankBefore(f, g) ==
    \/ f.Size > g.Size
    \/ f.Size = g.Size /\ LexLeq(f.Name, g.Name)

Ranked(F) == \A a, b \in 1..Len(F) : a < b => RankBefore(F[a], F[b])

LineOf(f) == [kind |-> "file", size |-> f.Size, text |-> f.Name]

\* the marker stands in s at the 0-based offset m
MarkerAt(s, m) ==
    /\ m + Len(Marker) <= Len(s)
    /\ \A k \in 1..Len(Marker) : s[m + k] = Marker[k]

HasMarker(s) == \E m \in 0..Len(s) : MarkerAt(s, m)

FirstMarker(s) ==
    CHOOSE m \in 0..Len(s) :
        MarkerAt(s, m) /\ \A j \in 0..(m - 1) : ~MarkerAt(s, j)

\* the text after the first occurrence of the marker
AfterMarker(s) == SubSeq(s, FirstMarker(s) + Len(Marker) + 1, Len(s))

\* the command C5 states, and the command run displays
ClaimedCmd(s) ==
    IF HasMarker(s) /\ AfterMarker(s) # <<>> THEN AfterMarker(s) ELSE s

ExpectedCmd(s) == IF HasMarker(s) THEN AfterMarker(s) ELSE s

\* the first w bytes of s
Cut(s, w) == SubSeq(s, 1, Min(Len(s), w))

NonEmptyStep(a) == ~a.EmptyLayer
NotDir(h) == h.Typeflag # TypeDir

RECURSIVE SumSizes(_)
SumSizes(F) == IF F = <<>> THEN 0 ELSE Head(F).Size + SumSizes(Tail(F))

(***************************************************************************)
(* C1                                                                      *)
(***************************************************************************)
C1_Counts == manifests.len = 1 /\ Len(manifest.Layers) = Len(history)
C1_Observed ==
    \A k \in 1..Len(manifest.Layers) : manifest.Layers[k] \in DOMAIN layers
C1_Wide == lineWidth >= humanizedWidth + 4

\* what C1 says of one step of run, for the archives of `pre`: the end of
\* the walk keeps exactly the steps that are not empty layers, in their
\* order; each pass of the loop adds one block, of the layer stored under
\* manifest.Layers[i] and of the command of step i; the loop ends after
\* exactly L blocks.
C1_Step(pre) ==
    /\ (pc = "walk" /\ pc' = "report")
            => history' = SelectSeq(Visible(img), NonEmptyStep)
    /\ (pc = "report" /\ pre) =>
        IF i < Len(history)
        THEN /\ pc' = "report"
             /\ i' = i + 1
             /\ PathOf(i + 1) \in DOMAIN layers
             /\ Len(out') >= Len(out) + 4
             /\ NumBlocks' = NumBlocks + 1
             /\ out'[Len(out) + 3] =
                  [kind |-> "summary",
                   size |-> layers[PathOf(i + 1)].Size,
                   text |-> Cut(ExpectedCmd(history[i + 1].CreatedBy),
                                lineWidth - 11)]
             /\ \A q \in (Len(out) + 5)..Len(out') :
                  \E k \in 1..Len(layers[PathOf(i + 1)].Files) :
                      out'[q] = LineOf(layers[PathOf(i + 1)].Files[k])
        ELSE /\ pc' = "done"
             /\ out' = out
             /\ NumBlocks = Len(manifest.Layers)

\* C1 as stated: for every archive whose manifest has one entry and as many
\* layer paths as the history has non-empty steps, run emits exactly L
\* blocks, block i of the layer under manifest.Layers[i] and of the command
\* of the i-th non-empty step.
C1_Orig == [][C1_Step(C1_Counts)]_vars

\* C1 amended: the same, for the archives in which every layer path of the
\* manifest was observed as a "/layer.tar" entry and for a line width of at
\* least 11.
C1_Thm == [][C1_Step(C1_Counts /\ C1_Observed /\ C1_Wide)]_vars

C1_Wit ==
    /\ pc = "done"
    /\ C1_Counts /\ C1_Observed /\ C1_Wide
    /\ manifest.Layers = <<bLayer, aLayer>>
    /\ img.len = 3
    /\ Len(history) = 2
    /\ NumBlocks = 2
    /\ layers[aLayer].Size # layers[bLayer].Size

(***************************************************************************)
(* C2                                                                      *)
(***************************************************************************)
\* C2: whenever the number of non-empty steps differs from the number of
\* layer paths of the first manifest item, run does not complete normally
\* and no block is emitted.
C2_Orig ==
    (WalkEnded /\ Len(history) # Len(manifest.Layers))
        => (pc # "done" /\ NumBlocks = 0)

(***************************************************************************)
(* C3                                                                      *)
(***************************************************************************)
\* C3: every pass of the loop that prints a block leaves the layer's files
\* a permutation of what they were, in the ranking order (the larger file
\* first, of two files of one size the smaller name first); the file lines
\* of the block are the first files of that order, in that order; and a
\* layer that was already in the ranking order is left as it was.
C3_Step ==
    (pc = "report" /\ pc' = "report") =>
        LET F0 == layers[PathOf(i + 1)].Files
            F1 == layers'[PathOf(i + 1)].Files
            lines == SubSeq(out', Len(out) + 5, Len(out'))
        IN  /\ IsPerm(F0, F1)
            /\ Ranked(F1)
            /\ Len(lines) <= Len(F1)
            /\ \A q \in 1..Len(lines) : lines[q] = LineOf(F1[q])
            /\ \A a, b \in 1..Len(lines) :
                 a < b =>
                    \/ lines[a].size > lines[b].size
                    \/ /\ lines[a].size = lines[b].size
                       /\ LexLeq(lines[a].text, lines[b].text)
            /\ Ranked(F0) => F1 = F0

C3_Thm == [][C3_Step]_vars

C3_Wit ==
    /\ pc = "done"
    /\ i = 2
    /\ maxFiles = 10
    /\ NumBlocks = 2
    /\ FileLinesOf(2) =
         <<LineOf(Header(<<97>>, 1, TypeReg)),
           LineOf(Header(<<97, 98>>, 1, TypeReg)),
           LineOf(Header(<<97>>, 0, TypeReg))>>

(***************************************************************************)
(* C4                                                                      *)
(***************************************************************************)
\* C4 as stated: for every maxFiles, negative ones included, the file lines
\* of a block number at most min(maxFiles, files of the layer), and a layer
\* of fewer files than maxFiles has them all listed.
C4_Orig ==
    \A k \in 1..NumBlocks :
        LET n == Len(layers[PathOf(k)].Files)
        IN  /\ Len(FileLinesOf(k)) <= Min(maxFiles, n)
            /\ n < maxFiles => Len(FileLinesOf(k)) = n

\* C4 amended: the file lines of a block are the first min(maxFiles, files
\* of the layer) files when maxFiles >= 0, and none when maxFiles < 0.
C4_Thm ==
    \A k \in 1..NumBlocks :
        LET F == layers[PathOf(k)].Files
            n == IF maxFiles < 0 THEN 0 ELSE Min(maxFiles, Len(F))
        IN  /\ Len(FileLinesOf(k)) = n
            /\ \A q \in 1..n : FileLinesOf(k)[q] = LineOf(F[q])

C4_Wit ==
    /\ NumBlocks = 1
    /\ maxFiles = 2
    /\ Len(layers[PathOf(1)].Files) = 3
    /\ Len(FileLinesOf(1)) = 2

(***************************************************************************)
(* C5                                                                      *)
(***************************************************************************)
\* C5 as stated: the command is the text after the first marker when text
\* follows the marker, and the whole createdBy in every other case, also
\* when the marker ends the string.
C5_Orig ==
    \A k \in 1..NumBlocks :
        out[NthSummary(k)].text =
            Cut(ClaimedCmd(history[k].CreatedBy), lineWidth - 11)

\* C5 amended: the command is the text after the first marker whenever
\* createdBy contains the marker, the empty text when nothing follows it,
\* and the whole createdBy only when the marker is absent.  (The summary
\* line shows the first lineWidth - 11 bytes of it.)
C5_Thm ==
    \A k \in 1..NumBlocks :
        out[NthSummary(k)].text =
            Cut(ExpectedCmd(history[k].CreatedBy), lineWidth - 11)

C5_Wit ==
    /\ NumBlocks = 1
    /\ lineWidth = 100
    /\ history[1].CreatedBy = <<97>> \o Marker
    /\ out[NthSummary(1)].text = <<>>

(***************************************************************************)
(* C6                                                                      *)
(***************************************************************************)
\* C6: while a nested archive is read, fs holds the entries read so far
\* that are no directories, in their order, and total is the sum of their
\* sizes; at the end of the nested archive exactly that is bound under the
\* entry's name, and no other layer changes.
C6_Step ==
    /\ pc' = "nested" =>
        /\ fs' = SelectSeq(nested', NotDir)
        /\ total' = SumSizes(SelectSeq(nested', NotDir))
    /\ (pc = "nested" /\ pc' = "walk") =>
        /\ DOMAIN layers' = DOMAIN layers \cup {cur}
        /\ layers'[cur] = [Files |-> SelectSeq(nested, NotDir),
                           Size |-> SumSizes(SelectSeq(nested, NotDir))]
        /\ \A n \in DOMAIN layers \ {cur} : layers'[n] = layers[n]

C6_Thm == [][C6_Step]_vars

C6_Wit ==
    /\ pc = "nested"
    /\ Len(nested) = 3
    /\ nested[2] = Header(<<97, 98>>, 1, TypeDir)
    /\ Len(fs) = 2
    /\ total = 1

(***************************************************************************)
(* C7                                                                      *)
(***************************************************************************)
\* C7: once run is past the walk with no first manifest item, it has ended
\* fatally, with a non-zero exit status and nothing printed.
C7_Thm ==
    (pc \notin {"walk", "nested"} /\ manifests.len = 0)
        => (pc = "fatal" /\ ExitCode # 0 /\ out = <<>>)

C7_Wit ==
    /\ pc = "fatal" /\ err = "index"
    /\ manifests.len = 0
    /\ img.len > 0
    /\ DOMAIN layers = {aLayer, bLayer}

(***************************************************************************)
(* C8                                                                      *)
(***************************************************************************)
\* C8: when the layer path paired with step k was never observed, run never
\* completes normally, the loop never gets past pair k, and no summary line
\* (so no file line) of block k is printed; the panic on a nil layer is at
\* a pair whose path was not observed.
C8_Thm ==
    WalkEnded =>
        /\ \A k \in 1..Min(Len(history), Len(manifest.Layers)) :
            PathOf(k) \notin DOMAIN layers =>
                /\ pc # "done"
                /\ i < k
                /\ NumBlocks < k
                /\ Cardinality({p \in 1..Len(out) : out[p].kind = "sep"})
                        < 2 * k
        /\ (pc = "fatal" /\ err = "nil") => PathOf(i + 1) \notin DOMAIN layers

C8_Wit ==
    /\ WalkEnded
    /\ pc = "fatal" /\ err = "nil"
    /\ i = 1
    /\ NumBlocks = 1
    /\ out[Len(out)].kind = "sep"
    /\ out[Len(out) - 1].kind = "blank"

(***************************************************************************)
(* C9                                                                      *)
(***************************************************************************)
\* C9 as stated: after an image document is decoded, the history is what
\* that document alone decodes to, whatever came before it.
C9_Orig ==
    [][\A d \in SparseImageDocs :
          ReadImageDoc(d)
              => Visible(img') = Visible(DecodeImage(NilSlice, d))]_vars

(***************************************************************************)
(* C10                                                                     *)
(***************************************************************************)
\* C10 as stated: the report phase leaves the map of layers as it was.
C10_Orig == [][pc = "report" => layers' = layers]_vars

\* C10 amended: the report phase leaves the keys of the map, every layer's
\* size and every layer's files as a multiset as they were; the only layer
\* a pass changes is the one it reports, whose files it puts in the ranking
\* order.
C10_Thm ==
    [][pc = "report" =>
          /\ DOMAIN layers' = DOMAIN layers
          /\ \A n \in DOMAIN layers :
              /\ layers'[n].Size = layers[n].Size
              /\ IsPerm(layers[n].Files, layers'[n].Files)
              /\ layers'[n] # layers[n] =>
                    /\ i' = i + 1
                    /\ n = PathOf(i + 1)
                    /\ Ranked(layers'[n].Files)]_vars

C10_Wit ==
    /\ pc = "done"
    /\ i = 1
    /\ layers[aLayer].Files =
         <<Header(<<97>>, 1, TypeReg), Header(<<97, 98>>, 1, TypeReg),
           Header(<<97>>, 0, TypeReg)>>
=============================================================================
